---------------------------- MODULE Spec2Model ----------------------------
(***************************************************************************)
(* License plate recognition (src/main.py): the country pattern matcher    *)
(* detect_country, the per-frame pipeline process_frame, and the control   *)
(* flow of main / play_video / process_image.                              *)
(*                                                                         *)
(* Three specifications share the module:                                  *)
(*   SpecCountry  one call of detect_country on a bounded input text       *)
(*   SpecFrame    one call of process_frame, one step per contour          *)
(*   SpecMain     one run of main, one step per read / per frame           *)
(*                                                                         *)
(* A text is a sequence of one-character strings.  A confidence is an      *)
(* integer number of thousandths (0.2 is 200).                             *)
(***************************************************************************)
EXTENDS Integers, Sequences, FiniteSets

VARIABLES
  \* ---- detect_country (SpecCountry)
  text,             \* the argument of detect_country
  country,          \* its return value, "" before the call returns
  dc_pc,            \* "call" | "returned"
  \* ---- process_frame (SpecFrame)
  contours,         \* the result of cv2.findContours, in traversal order
  ci,               \* index of the next contour the for loop visits
  detected_plates,  \* the list detected_plates (entries carry their origin)
  rectangles,       \* rectangles drawn on the frame by cv2.rectangle
  labels,           \* labels drawn on the frame by cv2.putText
  ocr_calls,        \* history of the reader.readtext calls
  pf_pc,            \* "loop" | "returned" | "idle"
  \* ---- main / play_video / process_image (SpecMain)
  choice,           \* the menu choice the operator typed
  pc,               \* "main" | "loop" | "frame" | "done" | "idle"
  call_no,          \* 0, or which play_video call of main is running (1, 2)
  use_matplotlib,   \* the use_matplotlib argument of the running call
  caps,             \* the cv2.VideoCapture objects of the run, per call
  trace             \* history of the run's observable events

countryVars == <<text, country, dc_pc>>
frameVars == <<contours, ci, detected_plates, rectangles, labels, ocr_calls, pf_pc>>
mainVars == <<choice, pc, call_no, use_matplotlib, caps, trace>>
vars == <<countryVars, frameVars, mainVars>>

--------------------------------------------------------------------------
(* Characters                                                              *)

Upper == {"A","B","C","D","E","F","G","H","I","J","K","L","M",
          "N","O","P","Q","R","S","T","U","V","W","X","Y","Z"}
Digit == {"0","1","2","3","4","5","6","7","8","9"}
Lower == {"a","b","c","d","e","f","g","h","i","j","k","l","m",
          "n","o","p","q","r","s","t","u","v","w","x","y","z"}
\* str.isalnum() on one character
isalnum(e) == e \in Upper \cup Lower \cup Digit
\* str.isspace() on one character: the blank and the tab are both whitespace
isspace(e) == e \in {" ", "\t"}

--------------------------------------------------------------------------
(* Country pattern matcher                                                 *)

\* One regular-expression item  cls{lo,hi}
Item(cls, lo, hi) == [cls |-> cls, lo |-> lo, hi |-> hi]

LICENSE_PLATE_PATTERNS ==
  << [country |-> "USA",
      pattern |-> << Item(Upper \cup Digit, 1, 7) >>],
     [country |-> "India",
      pattern |-> << Item(Upper, 2, 2), Item(Digit, 2, 2),
                     Item(Upper, 1, 2), Item(Digit, 4, 4) >>],
     [country |-> "Nepal",
      pattern |-> << Item(Upper, 2, 2), Item({"-"}, 1, 1), Item(Digit, 1, 4),
                     Item({"-"}, 1, 1), Item(Upper, 1, 2) >>],
     [country |-> "Australia",
      pattern |-> << Item(Upper, 1, 3), Item(Digit, 1, 4) >>],
     [country |-> "Canada",
      pattern |-> << Item(Upper \cup Digit, 1, 7) >> ] >>

\* text.replace(" ", ""): only the blank is removed, other whitespace stays
StripBlanks(s) == SelectSeq(s, LAMBDA e : e # " ")

\* Items k.. of pattern pat match s from offset pos (pos characters consumed);
\* full says whether the match must also reach the end of s.
RECURSIVE MatchFrom(_, _, _, _, _)
MatchFrom(pat, k, s, pos, full) ==
  IF k > Len(pat)
    THEN (full => pos = Len(s))
    ELSE \E n \in pat[k].lo .. pat[k].hi :
           /\ pos + n <= Len(s)
           /\ \A j \in 1..n : s[pos + j] \in pat[k].cls
           /\ MatchFrom(pat, k + 1, s, pos + n, full)

\* A bug that anchors the pattern at both ends (re.fullmatch)
ReFullMatch(pat, s) == MatchFrom(pat, 1, s, 0, TRUE)

\* re.match(pattern, s) is not None: the pattern matches a prefix of s
ReMatch(pat, s) == MatchFrom(pat, 1, s, 0, FALSE)

\* A bug that walks the table from its last entry to its first
RECURSIVE FirstMatchReversed(_, _)
FirstMatchReversed(k, s) ==
  LET n == Len(LICENSE_PLATE_PATTERNS) IN
  IF k > n THEN "Unknown"
  ELSE IF ReMatch(LICENSE_PLATE_PATTERNS[n + 1 - k].pattern, s)
         THEN LICENSE_PLATE_PATTERNS[n + 1 - k].country
         ELSE FirstMatchReversed(k + 1, s)

\* The for loop of detect_country from table entry k on, s already stripped
RECURSIVE FirstMatch(_, _)
FirstMatch(k, s) ==
  IF k > Len(LICENSE_PLATE_PATTERNS) THEN "Unknown"
  ELSE IF ReMatch(LICENSE_PLATE_PATTERNS[k].pattern, s)
         THEN LICENSE_PLATE_PATTERNS[k].country
         ELSE FirstMatch(k + 1, s)

detect_country(t) == FirstMatch(1, StripBlanks(t))

--------------------------------------------------------------------------
(* Input texts of SpecCountry                                              *)

MaxTextLen == 3

Alphabet == {"A", "1", "a", " ", "\t", "-"}

RECURSIVE TextsUpTo(_)
TextsUpTo(n) ==
  IF n = 0 THEN { <<>> }
  ELSE LET shorter == TextsUpTo(n - 1) IN
       shorter \cup { Append(s, c) : s \in shorter, c \in Alphabet }

XYZ123 == <<"X","Y","Z","1","2","3">>
AB12CD3456 == <<"A","B","1","2","C","D","3","4","5","6">>
BA_1234_PA == <<"B","A","-","1","2","3","4","-","P","A">>
ABC1234 == <<"A","B","C","1","2","3","4">>
AB1 == <<"A","B","1">>

SampleTexts ==
  { XYZ123, AB12CD3456, BA_1234_PA, ABC1234, AB1,
    <<" ","A","B"," ","1","2"," ","C","D","3","4","5","6">>,
    <<"a","b","1","2","c","d">>,
    <<"-","X","Y","Z","1","2","3">> }

Texts == TextsUpTo(MaxTextLen) \cup SampleTexts

--------------------------------------------------------------------------
(* process_frame: the filters                                              *)

AREA_MIN == 1000
MIN_VERTICES == 4
\* 1.5 <= w/h <= 5.0, the bounds as exact fractions
ASPECT_MIN_NUM == 3
ASPECT_MIN_DEN == 2
ASPECT_MAX == 5
MIN_ROI_HEIGHT == 20
MIN_ROI_WIDTH == 80
\* 0.2, in thousandths
MIN_PROB == 200
MIN_TEXT_LEN == 4
\* the label is put LABEL_DY pixels above the rectangle
LABEL_DY == 10
\* line thickness of the drawn rectangle
THICKNESS == 2

\* The frame's size; every bounding rectangle lies inside the frame.
FrameW == 400
FrameH == 300

Min(a, b) == IF a < b THEN a ELSE b
Max(a, b) == IF a > b THEN a ELSE b

\* A contour: contourArea, the vertex count of approxPolyDP, boundingRect
Contour(area, nv, x, y, w, h) ==
  [area |-> area, nverts |-> nv, x |-> x, y |-> y, w |-> w, h |-> h]

\* A bug that forgets the lower bound of the aspect ratio
AspectUpperOnly(c) == c.w <= ASPECT_MAX * c.h

\* 1.5 <= float(w) / h <= 5.0 (h >= 1 for a bounding rectangle); the
\* division is correctly rounded and both bounds are exact floats, so the
\* comparison agrees with the comparison of the fractions.
AspectOk(c) ==
  /\ ASPECT_MIN_NUM * c.h <= ASPECT_MIN_DEN * c.w
  /\ c.w <= ASPECT_MAX * c.h

\* roi = frame[y:y+h, x:x+w]; roi.shape is (rows, columns), slices are
\* clipped to the frame
RoiShape(c) ==
  << Min(c.y + c.h, FrameH) - Min(c.y, FrameH),
     Min(c.x + c.w, FrameW) - Min(c.x, FrameW) >>

\* not (roi.shape[0] < 20 or roi.shape[1] < 80)
RoiLargeEnough(c) ==
  ~ (RoiShape(c)[1] < MIN_ROI_HEIGHT \/ RoiShape(c)[2] < MIN_ROI_WIDTH)

\* The conditions under which the loop body reaches reader.readtext(roi)
ReachesOcr(c) ==
  /\ ~ (c.area < AREA_MIN)
  /\ c.nverts >= MIN_VERTICES
  /\ AspectOk(c)
  /\ RoiLargeEnough(c)

\* A bug that keeps the raw OCR text
KeepRaw(t) == t

\* ''.join(e for e in text if e.isalnum() or e.isspace())
Normalize(t) == SelectSeq(t, LAMBDA e : isalnum(e) \/ isspace(e))

\* Whether the crop of contour c holds a pixel of the outline that
\* cv2.rectangle(frame, (x, y), (x + w, y + h), color, 2) drew for r.  The
\* outline covers the pixels within THICKNESS \div 2 of the four border
\* lines; the crop is the pixel block [x, x+w) x [y, y+h).
CropHoldsOutline(c, r) ==
  LET t == THICKNESS \div 2
      \* crop, clipped to the outer box of the outline (inclusive ranges)
      x1 == Max(c.x, r.x - t)
      x2 == Min(c.x + c.w - 1, r.x + r.w + t)
      y1 == Max(c.y, r.y - t)
      y2 == Min(c.y + c.h - 1, r.y + r.h + t)
      \* strictly inside the outline: untouched pixels
      inside == /\ x1 > r.x + t /\ x2 < r.x + r.w - t
                /\ y1 > r.y + t /\ y2 < r.y + r.h - t
  IN x1 <= x2 /\ y1 <= y2 /\ ~ inside

\* f"{prob:.2f}": hundredths, for a confidence given in thousandths (the
\* inputs of the model have no thousandths digit 5, where the binary value
\* decides the rounding)
Fmt2(prob) == (prob + 5) \div 10

\* A bug that keeps the list sorted by confidence, highest first
RECURSIVE InsertByConfidence(_, _)
InsertByConfidence(list, p) ==
  IF list = <<>> THEN <<p>>
  ELSE IF p.prob > list[1].prob THEN <<p>> \o list
       ELSE <<list[1]>> \o InsertByConfidence(Tail(list), p)

\* detected_plates.append((text, country, prob))
AppendPlate(list, p) == Append(list, p)

\* A bug that leaves the result loop at the first low-confidence result
\* (break instead of continue)
SkipRest(result, k) == Len(result) + 1

\* continue: on to the next OCR result
Continue(result, k) == k + 1

\* The for loop over the OCR results of contour number n (c), from result k
\* on; acc is the frame's state [plates, rects, labels].
RECURSIVE ScanResults(_, _, _, _, _)
ScanResults(result, k, n, c, acc) ==
  IF k > Len(result) THEN acc
  ELSE LET r == result[k] IN
    IF r.prob < MIN_PROB
      THEN ScanResults(result, Continue(result, k), n, c, acc)
      ELSE LET t == Normalize(r.text) IN
        IF Len(t) >= MIN_TEXT_LEN
          THEN LET cty == detect_country(t)
                   plate == [text |-> t, country |-> cty, prob |-> r.prob,
                             contour |-> n, result |-> k]
               IN ScanResults(result, k + 1, n, c,
                    [plates |-> AppendPlate(acc.plates, plate),
                     labels |-> Append(acc.labels,
                                  [text |-> t, country |-> cty,
                                   prob2 |-> Fmt2(r.prob),
                                   x |-> c.x, y |-> c.y - LABEL_DY]),
                     rects  |-> Append(acc.rects,
                                  [x |-> c.x, y |-> c.y, w |-> c.w, h |-> c.h])])
          ELSE ScanResults(result, k + 1, n, c, acc)

--------------------------------------------------------------------------
(* process_frame: inputs                                                   *)

MaxContours == 2

PlateOuter == Contour(9000, 4, 100, 100, 200, 50)
\* the inner contour of the same edge (RETR_TREE reports both)
PlateInner == Contour(8500, 4, 101, 101, 198, 48)
PlateBelow == Contour(4000, 6, 120, 200, 160, 40)
\* every threshold met exactly: area 1000, 4 vertices, 100 x 20 (ratio 5.0)
Threshold == Contour(1000, 4, 0, 0, 100, 20)
SquareLarge == Contour(40000, 4, 50, 50, 200, 200)

ContourSet ==
  { PlateOuter, PlateInner, PlateBelow, Threshold, SquareLarge,
    Contour(999, 4, 10, 10, 90, 30),      \* area too small
    Contour(5000, 3, 10, 10, 200, 50),    \* a triangle
    Contour(5000, 4, 10, 10, 306, 60),    \* ratio 5.1
    Contour(1500, 4, 10, 10, 90, 19),     \* 19 rows
    Contour(1200, 4, 10, 10, 79, 40) }    \* 79 columns

RECURSIVE SeqsUpTo(_, _)
SeqsUpTo(S, n) ==
  IF n = 0 THEN { <<>> }
  ELSE LET shorter == SeqsUpTo(S, n - 1) IN
       shorter \cup { Append(q, e) : q \in shorter, e \in S }

\* One OCR result; the bounding box is ignored by process_frame
Ocr(t, prob) == [text |-> t, prob |-> prob]

OcrIndia == << Ocr(AB12CD3456, 900) >>
OcrShort == << Ocr(AB1, 900) >>
OcrMixed ==
  << Ocr(XYZ123, 150), Ocr(BA_1234_PA, 350), Ocr(AB1, 900),
     Ocr(<<"K","A"," ","0","1">>, 870) >>

\* What reader.readtext may return for a crop
OcrOutputs ==
  { <<>>, OcrIndia, OcrShort, OcrMixed,
    << Ocr(XYZ123, 199) >>,
    << Ocr(<<"A","-","B","-","1","!">>, 950) >>,
    << Ocr(<<"a","b","-","1","2","\t","x">>, 200) >> }

--------------------------------------------------------------------------
(* process_frame: the loop over the contours                               *)

FrameIdle ==
  /\ contours = <<>> /\ ci = 0 /\ detected_plates = <<>>
  /\ rectangles = <<>> /\ labels = <<>> /\ ocr_calls = <<>> /\ pf_pc = "idle"

\* preprocess_image returns the frame it was given, not a copy; Canny and
\* findContours give the contours, each reported once.  Nothing is drawn yet.
FrameInit ==
  /\ contours \in SeqsUpTo(ContourSet, MaxContours)
  /\ \A a, b \in 1..Len(contours) : a # b => contours[a] # contours[b]
  /\ ci = 1
  /\ detected_plates = <<>>
  /\ rectangles = <<>>
  /\ labels = <<>>
  /\ ocr_calls = <<>>
  /\ pf_pc = "loop"

\* One iteration that ends before reader.readtext (continue, or a failed if)
SkipContour ==
  /\ pf_pc = "loop"
  /\ ci <= Len(contours)
  /\ ~ ReachesOcr(contours[ci])
  /\ ci' = ci + 1
  /\ UNCHANGED <<contours, detected_plates, rectangles, labels, ocr_calls, pf_pc>>
  /\ UNCHANGED <<countryVars, mainVars>>

\* One iteration that crops the frame as it is now, calls reader.readtext on
\* the crop and scans its results
OcrContour ==
  /\ pf_pc = "loop"
  /\ ci <= Len(contours)
  /\ ReachesOcr(contours[ci])
  /\ \E result \in OcrOutputs :
       LET c == contours[ci]
           acc == ScanResults(result, 1, ci, c,
                    [plates |-> detected_plates, rects |-> rectangles,
                     labels |-> labels])
       IN /\ ocr_calls' = Append(ocr_calls,
               [contour |-> ci, roi |-> c, result |-> result,
                annotated |-> \E j \in 1..Len(rectangles) :
                                 CropHoldsOutline(c, rectangles[j])])
          /\ detected_plates' = acc.plates
          /\ rectangles' = acc.rects
          /\ labels' = acc.labels
  /\ ci' = ci + 1
  /\ UNCHANGED <<contours, pf_pc>>
  /\ UNCHANGED <<countryVars, mainVars>>

\* return frame, detected_plates
ReturnFrame ==
  /\ pf_pc = "loop"
  /\ ci > Len(contours)
  /\ pf_pc' = "returned"
  /\ UNCHANGED <<contours, ci, detected_plates, rectangles, labels, ocr_calls>>
  /\ UNCHANGED <<countryVars, mainVars>>

--------------------------------------------------------------------------
(* detect_country as a call                                                *)

CountryIdle == text = <<>> /\ country = "" /\ dc_pc = "idle"

CountryInit == text \in Texts /\ country = "" /\ dc_pc = "call"

DetectCountry ==
  /\ dc_pc = "call"
  /\ country' = detect_country(text)
  /\ dc_pc' = "returned"
  /\ UNCHANGED <<text, frameVars, mainVars>>

--------------------------------------------------------------------------
(* main, play_video, process_image                                         *)

\* Frames a source delivers at most before a read fails
MaxFrames == 2

Choices == {"1", "2", "3", "x"}

\* What can be raised while a frame is processed or shown: a cv2.error,
\* another Exception, a KeyboardInterrupt
Failures == {"cv2.error", "Exception", "KeyboardInterrupt"}
\* where: inside process_frame, or in the display call after it
Stages == {"process", "show"}

Ev(ev, call, frame, kind) ==
  [ev |-> ev, call |-> call, frame |-> frame, kind |-> kind]

\* A bug that lets the inner handler catch every Exception
InnerCatchesException(kind) == kind \in {"cv2.error", "Exception"}

\* except cv2.error:  around the first play_video call of choices 1 and 2
InnerCatches(kind) == kind = "cv2.error"

\* except KeyboardInterrupt / except Exception  at the top level of main
\* (cv2.error is an Exception)
TopCatches(kind) == kind \in {"KeyboardInterrupt", "Exception", "cv2.error"}

MainIdle ==
  /\ choice = "" /\ pc = "idle" /\ call_no = 0 /\ use_matplotlib = FALSE
  /\ caps = <<>> /\ trace = <<>>

MainInit ==
  /\ choice \in Choices
  /\ pc = "main"
  /\ call_no = 0
  /\ use_matplotlib = FALSE
  /\ caps = <<>>
  /\ trace = <<>>

\* The start of play_video(path, reader, mpl) as call number call of main:
\* cv2.VideoCapture, the isOpened test.  base and tr are the captures and
\* the events so far.
EnterPlayVideo(call, mpl, opened, base, tr) ==
  /\ call_no' = call
  /\ use_matplotlib' = mpl
  /\ IF opened
       THEN /\ caps' = Append(base, [released |-> FALSE, left |-> FALSE,
                                     nread |-> 0, processed |-> <<>>])
            /\ trace' = Append(tr, Ev("open", call, 0, ""))
            /\ pc' = "loop"
       ELSE \* "Error: Unable to open video file", return; main ends
            /\ caps' = base
            /\ trace' = Append(tr, Ev("open_failed", call, 0, ""))
            /\ pc' = "done"

\* break, then cap.release(), destroyAllWindows() unless use_matplotlib,
\* return; main has nothing left to do
LeaveByBreak(tr) ==
  /\ caps' = [caps EXCEPT ![call_no].released = TRUE, ![call_no].left = TRUE]
  /\ trace' = Append(tr, Ev("release", call_no, 0, ""))
                \o (IF use_matplotlib THEN <<>>
                    ELSE << Ev("destroy", call_no, 0, "") >>)
  /\ pc' = "done"
  /\ UNCHANGED <<call_no, use_matplotlib>>

\* An exception of the given kind leaves the running function(s) and
\* reaches the handlers of main.  base: the captures as the exception leaves.
Propagate(kind, base, tr) ==
  IF call_no = 1 /\ InnerCatches(kind)
    THEN \* "Falling back to Matplotlib ...", play_video(..., use_matplotlib=True)
         \E opened \in BOOLEAN :
           EnterPlayVideo(2, TRUE, opened, base,
                          Append(tr, Ev("fallback", call_no, 0, kind)))
    ELSE /\ TopCatches(kind)
         /\ caps' = base
         /\ trace' = Append(tr, Ev("report", call_no, 0, kind))
         /\ pc' = "done"
         /\ UNCHANGED <<call_no, use_matplotlib>>

\* choice '1' / '2': play_video(video_path or 0, reader)
DispatchVideo ==
  /\ pc = "main"
  /\ choice \in {"1", "2"}
  /\ \E opened \in BOOLEAN : EnterPlayVideo(1, FALSE, opened, caps, trace)
  /\ UNCHANGED <<choice, countryVars, frameVars>>

\* choice '3': process_image, whose image cannot be loaded
DispatchImageMissing ==
  /\ pc = "main"
  /\ choice = "3"
  /\ trace' = Append(trace, Ev("load_failed", 0, 0, ""))
  /\ pc' = "done"
  /\ UNCHANGED <<choice, call_no, use_matplotlib, caps, countryVars, frameVars>>

\* choice '3': process_image on a loaded image: process_frame, the prints,
\* display_frame_with_matplotlib
DispatchImage ==
  /\ pc = "main"
  /\ choice = "3"
  /\ trace' = trace \o << Ev("process", 0, 1, ""), Ev("show", 0, 1, "") >>
  /\ pc' = "done"
  /\ UNCHANGED <<choice, call_no, use_matplotlib, caps, countryVars, frameVars>>

\* choice '3': process_frame or the display raises
DispatchImageRaise ==
  /\ pc = "main"
  /\ choice = "3"
  /\ \E kind \in Failures, stage \in Stages :
       LET tr == (IF stage = "show"
                    THEN Append(trace, Ev("process", 0, 1, "")) ELSE trace)
       IN Propagate(kind, caps, Append(tr, Ev("raise", 0, 1, kind)))
  /\ UNCHANGED <<choice, countryVars, frameVars>>

\* any other choice: no branch is taken
DispatchNone ==
  /\ pc = "main"
  /\ choice \notin {"1", "2", "3"}
  /\ pc' = "done"
  /\ UNCHANGED <<choice, call_no, use_matplotlib, caps, trace, countryVars, frameVars>>

\* ret, frame = cap.read() with ret true
ReadFrame ==
  /\ pc = "loop"
  /\ caps[call_no].nread < MaxFrames
  /\ caps' = [caps EXCEPT ![call_no].nread = @ + 1]
  /\ trace' = Append(trace, Ev("read", call_no, caps[call_no].nread + 1, ""))
  /\ pc' = "frame"
  /\ UNCHANGED <<choice, call_no, use_matplotlib, countryVars, frameVars>>

\* ret false: "End of video or error reading frame.", break
ReadEnd ==
  /\ pc = "loop"
  /\ LeaveByBreak(Append(trace, Ev("eos", call_no, 0, "")))
  /\ UNCHANGED <<choice, countryVars, frameVars>>

\* process_frame, the prints and the display of the frame just read; the
\* loop goes on
ShowFrame ==
  /\ pc = "frame"
  /\ LET f == caps[call_no].nread IN
       /\ caps' = [caps EXCEPT ![call_no].processed = Append(@, f)]
       /\ trace' = trace \o << Ev("process", call_no, f, ""),
                               Ev("show", call_no, f, "") >>
  /\ pc' = "loop"
  /\ UNCHANGED <<choice, call_no, use_matplotlib, countryVars, frameVars>>

\* the same, and cv2.waitKey reports 'q' (window mode only): break
ShowFrameQuit ==
  /\ pc = "frame"
  /\ ~ use_matplotlib
  /\ LET f == caps[call_no].nread IN
       /\ caps' = [caps EXCEPT ![call_no].processed = Append(@, f),
                               ![call_no].released = TRUE,
                               ![call_no].left = TRUE]
       /\ trace' = trace \o << Ev("process", call_no, f, ""),
                               Ev("show", call_no, f, ""),
                               Ev("quit", call_no, f, ""),
                               Ev("release", call_no, 0, ""),
                               Ev("destroy", call_no, 0, "") >>
  /\ pc' = "done"
  /\ UNCHANGED <<choice, call_no, use_matplotlib, countryVars, frameVars>>

\* process_frame or the display of the frame just read raises: the
\* exception leaves the loop and play_video (cap.release() is not reached)
FrameRaises ==
  /\ pc = "frame"
  /\ \E kind \in Failures, stage \in Stages :
       LET f == caps[call_no].nread
           done == stage = "show"
           base == [caps EXCEPT
                      ![call_no].processed = IF done THEN Append(@, f) ELSE @,
                      ![call_no].left = TRUE]
           tr == IF done THEN Append(trace, Ev("process", call_no, f, ""))
                 ELSE trace
       IN Propagate(kind, base, Append(tr, Ev("raise", call_no, f, kind)))
  /\ UNCHANGED <<choice, countryVars, frameVars>>

--------------------------------------------------------------------------
(* Specifications                                                          *)

InitCountry == CountryInit /\ FrameIdle /\ MainIdle
NextCountry == DetectCountry
SpecCountry == InitCountry /\ [][NextCountry]_vars

InitFrame == CountryIdle /\ FrameInit /\ MainIdle
NextFrame == SkipContour \/ OcrContour \/ ReturnFrame
SpecFrame == InitFrame /\ [][NextFrame]_vars

InitMain == CountryIdle /\ FrameIdle /\ MainInit
NextMain ==
  \/ DispatchVideo \/ DispatchImageMissing \/ DispatchImage
  \/ DispatchImageRaise \/ DispatchNone
  \/ ReadFrame \/ ReadEnd \/ ShowFrame \/ ShowFrameQuit \/ FrameRaises
SpecMain == InitMain /\ [][NextMain]_vars

--------------------------------------------------------------------------
(* Properties of process_frame (SpecFrame)                                 *)

\* C1: reader.readtext is called for a contour only if its area is >= 1000,
\* its polygon has >= 4 vertices, 1.5 <= w/h <= 5.0, w >= 80 and h >= 20;
\* in particular never for a square bounding rectangle.
C1_OcrOnlyForPlateShaped ==
  \A k \in 1..Len(ocr_calls) :
    LET c == contours[ocr_calls[k].contour] IN
      /\ ocr_calls[k].roi = c
      /\ c.area >= 1000
      /\ c.nverts >= 4
      /\ 2 * c.w >= 3 * c.h
      /\ c.w <= 5 * c.h
      /\ c.w >= 80
      /\ c.h >= 20
      /\ c.w # c.h

\* A large square contour was visited, and another contour reached OCR
C1_Witness ==
  /\ pf_pc = "returned"
  /\ \E i \in 1..Len(contours) : contours[i] = SquareLarge
  /\ Len(ocr_calls) = 1

\* C2: every Detected Plate has confidence >= 0.2 and a normalized text of
\* length >= 4 made of alphanumeric and whitespace characters only; "AB1"
\* is never emitted.
C2_PlatesWellFormed ==
  \A a \in 1..Len(detected_plates) :
    LET p == detected_plates[a] IN
      /\ p.prob >= 200
      /\ Len(p.text) >= 4
      /\ \A j \in 1..Len(p.text) :
           p.text[j] \in Upper \cup Lower \cup Digit \cup {" ", "\t"}
      /\ p.text # AB1

\* "AB1" came back with confidence 0.9, a text with punctuation was accepted
C2_Witness ==
  /\ pf_pc = "returned"
  /\ \E k \in 1..Len(ocr_calls) : ocr_calls[k].result = OcrMixed
  /\ \E k \in 1..Len(ocr_calls) : ocr_calls[k].result = OcrShort
  /\ Len(detected_plates) = 2

\* C4: one candidate region whose single OCR result is "AB12CD3456" with
\* confidence >= 0.2 yields exactly one Detected Plate, of country "India".
C4_IndiaPlate ==
  ( /\ pf_pc = "returned"
    /\ Len(ocr_calls) = 1
    /\ Len(ocr_calls[1].result) = 1
    /\ ocr_calls[1].result[1].text = AB12CD3456
    /\ ocr_calls[1].result[1].prob >= 200 )
  => /\ Len(detected_plates) = 1
     /\ detected_plates[1].text = AB12CD3456
     /\ detected_plates[1].country = "India"

\* C5: no crop handed to reader.readtext holds pixels drawn for a Detected
\* Plate of an earlier region of the frame.
C5_CropsUnannotated ==
  \A k \in 1..Len(ocr_calls) : ~ ocr_calls[k].annotated

\* Plate a comes from an earlier contour than plate b, or from an earlier
\* OCR result of the same contour
Before(a, b) ==
  \/ a.contour < b.contour
  \/ a.contour = b.contour /\ a.result < b.result

\* C6: the Detected Plates are in contour discovery order, and within one
\* region in the order of the OCR results; never sorted by confidence.
C6_DiscoveryOrder ==
  \A a, b \in 1..Len(detected_plates) :
    a < b => Before(detected_plates[a], detected_plates[b])

\* Two plates, the later one with the higher confidence
C6_Witness ==
  /\ pf_pc = "returned"
  /\ \E a, b \in 1..Len(detected_plates) :
       a < b /\ detected_plates[a].prob < detected_plates[b].prob

\* The OCR result j of call k passes the text filter
Accepted(k, j) ==
  LET r == ocr_calls[k].result[j] IN
    r.prob >= 200 /\ Len(Normalize(r.text)) >= 4

\* C9: the list holds exactly one Detected Plate per OCR result with
\* confidence >= 0.2 and normalized length >= 4, and nothing else; each
\* carries the normalized text, the confidence and the country of that
\* result, and one rectangle and one label are drawn per entry.
C9_PerResultFilter ==
  /\ \A k \in 1..Len(ocr_calls) : \A j \in 1..Len(ocr_calls[k].result) :
       Cardinality({ a \in 1..Len(detected_plates) :
                       /\ detected_plates[a].contour = ocr_calls[k].contour
                       /\ detected_plates[a].result = j })
         = IF Accepted(k, j) THEN 1 ELSE 0
  /\ \A a \in 1..Len(detected_plates) :
       \E k \in 1..Len(ocr_calls) :
         LET p == detected_plates[a]
             r == ocr_calls[k].result IN
           /\ p.contour = ocr_calls[k].contour
           /\ p.result \in 1..Len(r)
           /\ p.text = Normalize(r[p.result].text)
           /\ p.prob = r[p.result].prob
           /\ p.country = detect_country(p.text)
  /\ Len(rectangles) = Len(detected_plates)
  /\ Len(labels) = Len(detected_plates)
  /\ \A a \in 1..Len(detected_plates) :
       LET c == contours[detected_plates[a].contour] IN
         /\ rectangles[a] = [x |-> c.x, y |-> c.y, w |-> c.w, h |-> c.h]
         /\ labels[a].text = detected_plates[a].text
         /\ labels[a].country = detected_plates[a].country

\* A region whose OCR results are partly accepted, partly rejected
C9_Witness ==
  /\ pf_pc = "returned"
  /\ Len(ocr_calls) = 2
  /\ ocr_calls[1].result = OcrMixed
  /\ ocr_calls[2].result = OcrMixed
  /\ Len(detected_plates) = 4

--------------------------------------------------------------------------
(* Properties of detect_country (SpecCountry)                              *)

\* The table entries whose pattern matches a prefix of s
Matching(s) ==
  { k \in 1..Len(LICENSE_PLATE_PATTERNS) :
      ReMatch(LICENSE_PLATE_PATTERNS[k].pattern, s) }

\* C3: detect_country returns the label of the first table entry, in the
\* order USA, India, Nepal, Australia, Canada, whose pattern matches a
\* prefix of the text without blanks; never "Canada"; "XYZ123" gives "USA".
C3_FirstMatchWins ==
  dc_pc = "returned" =>
    LET s == StripBlanks(text)
        M == Matching(s) IN
      /\ [k \in 1..5 |-> LICENSE_PLATE_PATTERNS[k].country]
           = <<"USA", "India", "Nepal", "Australia", "Canada">>
      /\ IF M = {} THEN country = "Unknown"
         ELSE \E k \in M : /\ \A j \in M : k <= j
                           /\ country = LICENSE_PLATE_PATTERNS[k].country
      /\ country # "Canada"
      /\ (text = XYZ123 => country = "USA")

C3_Witness == dc_pc = "returned" /\ text = XYZ123 /\ country = "USA"

\* C10: detect_country returns "USA" or "Unknown"; a text matching the
\* India, Nepal or Australia pattern starts with an upper-case letter and
\* matches the USA pattern; "Unknown" exactly when the text without blanks
\* is empty or does not start with a character of A-Z or 0-9.
C10_UsaOrUnknown ==
  dc_pc = "returned" =>
    LET s == SelectSeq(text, LAMBDA e : e # " ") IN
      /\ country \in {"USA", "Unknown"}
      /\ country = "Unknown" <=> (s = <<>> \/ s[1] \notin Upper \cup Digit)
      /\ \A k \in 2..4 :
           MatchFrom(LICENSE_PLATE_PATTERNS[k].pattern, 1, s, 0, FALSE)
             => s[1] \in Upper /\ 1 \in Matching(s)

\* An India-shaped and a Nepal-shaped text were classified
C10_Witness ==
  /\ dc_pc = "returned"
  /\ text \in {AB12CD3456, BA_1234_PA}
  /\ Matching(StripBlanks(text)) \cap {2, 3} # {}
  /\ country = "USA"

--------------------------------------------------------------------------
(* Properties of main and play_video (SpecMain)                            *)

Raised(i) == i \in 1..Len(trace) /\ trace[i].ev = "raise"

\* The failure raised at event i is reported at the top level and ends the
\* run: nothing follows the report
EndsRun(i) ==
  /\ i + 1 = Len(trace)
  /\ trace[i + 1].ev = "report"
  /\ trace[i + 1].kind = trace[i].kind
  /\ pc = "done"

\* C7 as stated: every failure raised while a frame is processed is caught
\* at the top level of main, reported, and ends the run; no frame is read
\* or processed after it and the video is not restarted.
C7_EveryFailureEndsRun ==
  \A i \in 1..Len(trace) : Raised(i) => EndsRun(i)

\* The failure at event i is a cv2.error of the first play_video call
FallsBack(i) ==
  /\ trace[i].kind = "cv2.error"
  /\ trace[i].call = 1
  /\ choice \in {"1", "2"}

\* C7, amended: a cv2.error raised in the first play_video call of choices
\* 1 and 2 is caught by the inner handler, which calls play_video again in
\* matplotlib mode (a new capture is opened, from the start); every other
\* failure, those of the second call included, is reported at the top level
\* and ends the run.
C7_FailureEndsRunOrFallsBack ==
  \A i \in 1..Len(trace) : Raised(i) =>
    IF FallsBack(i)
      THEN /\ i + 2 <= Len(trace)
           /\ trace[i + 1].ev = "fallback"
           /\ trace[i + 2].ev \in {"open", "open_failed"}
           /\ trace[i + 2].call = 2
           /\ \A j \in 1..Len(trace) : j > i => trace[j].call \in {1, 2}
           /\ \A j \in 1..Len(trace) : j > i + 1 => trace[j].call = 2
      ELSE EndsRun(i)

\* A cv2.error restarted the video, a frame of the second call was read,
\* and a failure of the second call ended the run
C7_Witness ==
  /\ pc = "done"
  /\ \E i, j, k \in 1..Len(trace) :
       /\ i < j /\ j < k
       /\ Raised(i) /\ trace[i].call = 1
       /\ trace[j].ev = "read" /\ trace[j].call = 2
       /\ Raised(k) /\ trace[k].call = 2 /\ trace[k].kind = "cv2.error"

\* C8: a failed read ends play_video cleanly (no further frame processed,
\* capture released, window destroyed unless in matplotlib mode), every
\* frame read before was processed once and in read order, and the capture
\* is released on every path that leaves the loop.
C8_CleanStopAndRelease ==
  /\ \A i \in 1..Len(trace) : trace[i].ev = "eos" =>
       /\ i < Len(trace)
       /\ trace[i + 1] = Ev("release", trace[i].call, 0, "")
       /\ (trace[i].call = 1 =>
             i + 2 <= Len(trace) /\ trace[i + 2].ev = "destroy")
       /\ \A j \in 1..Len(trace) :
            (j > i /\ trace[j].call = trace[i].call)
              => trace[j].ev \in {"release", "destroy"}
       /\ LET c == caps[trace[i].call] IN
            c.released /\ c.processed = [n \in 1..c.nread |-> n]
  /\ \A k \in 1..Len(caps) : caps[k].left => caps[k].released

==========================================================================
